---- MODULE Spec2Model ----
(***************************************************************************)
(* Rize push-up counter: the rep phase state machine (lib/poseMath.ts,     *)
(* second revision in the file, lines 263-399) and the per-frame counting  *)
(* stage of the PoseOverlay component (components/PoseOverlay.tsx, second  *)
(* revision in the file, lines 228-646).                                   *)
(*                                                                         *)
(* Numbers are integers: angles in degrees, times in milliseconds, lengths *)
(* in pixels.  The inputs are drawn from sets on which the arithmetic of   *)
(* the source is exact, except the EMA blend, which is truncated to a grid *)
(* of Quantum pixels.                                                      *)
(*                                                                         *)
(* The specifications share the variables:                                 *)
(*   SpecEngine    tickRepEngine driven directly, tick by tick;            *)
(*   SpecMalformed tickRepEngine fed malformed angles as well;             *)
(*   Spec          the counting stage of the component: calibration,       *)
(*                 depth tracking, tick, rollback, change emission and the *)
(*                 mode-change reset;                                      *)
(*   SpecSession   the counting stage under the workout page's session     *)
(*                 controls (app/workout/page.tsx);                        *)
(*   SpecLoop      the animation-frame loop of the component: the loop     *)
(*                 effect, its start timer, and every exit path of detect; *)
(*   SpecConfig    tickRepEngine under valid and invalid threshold pairs;  *)
(*   SpecTracker   BodyDepthTracker driven call by call;                   *)
(*   SpecEMA       one EMA driven call by call;                            *)
(*   SpecAngle     calculateAngle applied to points of a lattice;          *)
(*   SpecFront     the front-mode reconciliation of the two elbow angles;  *)
(*   SpecRun       tickRepEngine with the runs of high and low angles      *)
(*                 recorded;                                               *)
(*   SpecStats     the stored workout stats (lib/workoutStats.ts) driven   *)
(*                 call by call;                                           *)
(*   SpecResults   the results page (app/results/page.tsx, the revision    *)
(*                 that saves the session) over the stored stats.          *)
(***************************************************************************)
EXTENDS Integers, Sequences, FiniteSets

VARIABLES
    engine,        \* repEngineRef.current: the RepEngine record
    now,           \* the clock value read by the most recent tick (0 before any)
    elbowAngle,    \* SpecEngine: the angle passed to the most recent tick
    thresholds,    \* SpecEngine: the A_UP / A_DOWN arguments of this run
    streak,        \* history: consecutive ticks spent in the same candidate
                   \* phase with the candidate condition true
    lastIncTime,   \* history: clock value of the last tick that raised reps
    cycleStartReps,\* history: reps when the phase last left UP
    mon,           \* history: progress of the input pattern
                   \* "angle >= A_UP in UP, then lows, then highs"
    scen,          \* history: length of the prefix of Scenario fed so far
    prevPhase,     \* engine.phase before the most recent tick (detect's prevPhase)
    mode,          \* the mode prop: "side" or "front"
    depthTracker,  \* depthTrackerRef.current: the BodyDepthTracker
    isValidRep,    \* isValidRepRef.current
    lastRepCount,  \* lastRepCountRef.current
    lastPhase,     \* lastPhaseRef.current
    calibrationFrames, \* calibrationFramesRef.current
    maxAngleAccum, \* sum of maxAngleAccumRef.current (what its reduce computes)
    dynamicUp,     \* dynamicUpRef.current
    shownReps,     \* last value delivered through onRepChange (0 before any)
    shownPhase,    \* last value delivered through onPhaseChange ("UP" before any)
    lastOp,        \* history: the most recent step ("init", "calibrate", "tick", "mode")
    repsBefore,    \* history: engine.reps before the most recent frame
    cycleEverValid,\* history: checkValidity() was true on a frame since the phase left UP
    cycleMaxY,     \* history: largest y of the frames since the phase left UP
    modeChanges,   \* history: number of mode changes so far
    primed,        \* the modes whose position smoothers and angle EMAs hold a value
    rolledBack,    \* history: the most recent frame was a confirming frame
                   \* that ran "engine.reps--"
    confirmDepthOk,\* history: the most recent frame was a confirming frame
                   \* on which checkValidity() was true
    status,        \* workout page: "Ready", "Recording" or "Finished"
    pageReps,      \* workout page: the reps state shown to the user
    baseReps,      \* history: engine.reps when startSession ran
    handedReps,    \* the reps value finishSession hands to the results page
    isRunning,     \* the isRunning prop
    landmarker,    \* usePose() has delivered a landmarker
    effActive,     \* the `active` flag of the current instance of the loop effect
    timerCurrent,  \* the start timer of the current effect instance is pending
    timersStale,   \* pending start timers of effect instances already cleaned up
    rafCurrent,    \* the callback whose id is in animFrameRef is pending
    rafOrphans,    \* pending detect callbacks whose id is no longer in animFrameRef
    lastTime,      \* lastTimeRef.current
    effects,       \* history: number of runs of the loop effect so far
    frameVis,      \* history: lowest visibility, in percent, among the required
                   \* landmarks of the frame the most recent detect looked at
    trackedYs,     \* history: the y values passed to trackDepth since the last
                   \* resetRep (or the construction of the tracker)
    baselineFed,   \* history: updateBaseline has been called on the tracker
    lastCall,      \* history: the most recent call made on the library object
                   \* under test, with its arguments
    emaValue,      \* SpecEMA: the value field of an EMA
    emaAlpha,      \* SpecEMA: its alpha, in percent
    emaOut,        \* SpecEMA: the value its most recent add returned
    emaFed,        \* history: the inputs of add since the construction or reset
    pts,           \* SpecAngle: <<A, B, C>>, the points passed to calculateAngle
    angle,         \* SpecAngle: the value calculateAngle returned for them
    arms,          \* SpecFront: <<LA, RA>>, the smoothed elbow angles of a frame
    fed,           \* SpecFront: <<elbowAngle, isSymmetric>> derived from them
    highRun,       \* history: length of the run of ticks with angle >= A_UP that
                   \* ends at the most recent tick (capped)
    lowRun,        \* history: the same for ticks with angle <= A_DOWN
    storage,       \* localStorage: the item stored under STORAGE_KEY, or NoItem
    today,         \* the current UTC date, as a day number
    saves,         \* history: number of saveWorkoutSession calls with reps > 0
    mounted,       \* results page: the page is mounted
    mounts,        \* history: number of mounts of the results page so far
    resReps,       \* results page: the reps search parameter, parsed
    hasSaved,      \* results page: the hasSaved state
    pageStats,     \* results page: the stats state (NoStats while null)
    effectDue,     \* results page: the effect will run after the latest commit
    pageSaves      \* history: saveWorkoutSession invocations of this mount

engineVars == <<engine, now, elbowAngle, thresholds, streak, lastIncTime,
                cycleStartReps, mon, scen, prevPhase>>

overlayVars == <<mode, depthTracker, isValidRep, lastRepCount, lastPhase,
                 calibrationFrames, maxAngleAccum, dynamicUp, shownReps,
                 shownPhase, lastOp, repsBefore, cycleEverValid, cycleMaxY,
                 modeChanges, primed, rolledBack, confirmDepthOk>>

pageVars == <<status, pageReps, baseReps, handedReps>>

loopVars == <<isRunning, landmarker, effActive, timerCurrent, timersStale,
              rafCurrent, rafOrphans, lastTime, effects, frameVis>>

harnessVars == <<trackedYs, baselineFed, lastCall, emaValue, emaAlpha, emaOut,
                 emaFed, pts, angle, arms, fed>>

runVars == <<highRun, lowRun>>

statsVars == <<storage, today, saves>>

resultsVars == <<mounted, mounts, resReps, hasSaved, pageStats, effectDue, pageSaves>>

unitVars == <<harnessVars, runVars, statsVars, resultsVars>>

vars == <<engineVars, overlayVars, pageVars, loopVars, unitVars>>

\* A value that no clock reading, count or pixel height takes.
None == 0 - 1

----------------------------------------------------------------------------
(* lib/poseMath.ts: constants                                              *)

DEBOUNCE_FRAMES == 3

COOLDOWN_MS == 350

MIN_REP_DURATION_MS == 350

HYSTERESIS == 5

RepPhase == {"UP", "GOING_DOWN", "DOWN", "GOING_UP"}

----------------------------------------------------------------------------
(* lib/poseMath.ts: createRepEngine / tickRepEngine                        *)

\* An angle is an integer number of degrees or NaN.  The relational operators
\* of the source are false whenever an operand is NaN.
NaN == 0 - 1000

Lt(a, b) == a # NaN /\ a < b

Le(a, b) == a # NaN /\ a <= b

Ge(a, b) == a # NaN /\ a >= b

Gt(a, b) == a # NaN /\ a > b

createRepEngine ==
    [phase |-> "UP", reps |-> 0, holdFrames |-> 0,
     lastRepTime |-> 0, repStartTime |-> 0]

\* The confirmation gate of GOING_UP -> UP.
RepGate_noDuration(e, t) ==
    t - e.lastRepTime > COOLDOWN_MS

RepGate_always(e, t) ==
    TRUE

RepGate(e, t) ==
    /\ t - e.lastRepTime > COOLDOWN_MS
    /\ t - e.repStartTime >= MIN_REP_DURATION_MS

tickUP(e, a, t, A_UP, A_DOWN) ==
    IF Lt(a, A_UP - HYSTERESIS)
    THEN [e EXCEPT !.phase = "GOING_DOWN", !.holdFrames = 0]
    ELSE e

tickGOING_DOWN_noReset(e, a, t, A_UP, A_DOWN) ==
    IF Le(a, A_DOWN)
    THEN IF e.holdFrames + 1 >= DEBOUNCE_FRAMES
         THEN [e EXCEPT !.phase = "DOWN", !.holdFrames = 0, !.repStartTime = t]
         ELSE [e EXCEPT !.holdFrames = e.holdFrames + 1]
    ELSE IF Ge(a, A_UP)
         THEN [e EXCEPT !.phase = "UP", !.holdFrames = 0]
         ELSE e

tickGOING_DOWN_abortCounts(e, a, t, A_UP, A_DOWN) ==
    IF Le(a, A_DOWN)
    THEN IF e.holdFrames + 1 >= DEBOUNCE_FRAMES
         THEN [e EXCEPT !.phase = "DOWN", !.holdFrames = 0, !.repStartTime = t]
         ELSE [e EXCEPT !.holdFrames = e.holdFrames + 1]
    ELSE IF Ge(a, A_UP)
         THEN [e EXCEPT !.phase = "UP", !.holdFrames = 0, !.reps = e.reps + 1]
         ELSE [e EXCEPT !.holdFrames = 0]

tickGOING_DOWN_keepHold(e, a, t, A_UP, A_DOWN) ==
    IF Le(a, A_DOWN)
    THEN IF e.holdFrames + 1 >= DEBOUNCE_FRAMES
         THEN [e EXCEPT !.phase = "DOWN", !.holdFrames = e.holdFrames + 1,
                        !.repStartTime = t]
         ELSE [e EXCEPT !.holdFrames = e.holdFrames + 1]
    ELSE IF Ge(a, A_UP)
         THEN [e EXCEPT !.phase = "UP", !.holdFrames = 0]
         ELSE [e EXCEPT !.holdFrames = 0]

tickGOING_DOWN(e, a, t, A_UP, A_DOWN) ==
    IF Le(a, A_DOWN)
    THEN IF e.holdFrames + 1 >= DEBOUNCE_FRAMES
         THEN [e EXCEPT !.phase = "DOWN", !.holdFrames = 0, !.repStartTime = t]
         ELSE [e EXCEPT !.holdFrames = e.holdFrames + 1]
    ELSE IF Ge(a, A_UP)
         THEN [e EXCEPT !.phase = "UP", !.holdFrames = 0]
         ELSE [e EXCEPT !.holdFrames = 0]

tickDOWN_straightUp(e, a, t, A_UP, A_DOWN) ==
    IF Ge(a, A_UP)
    THEN [e EXCEPT !.phase = "UP", !.holdFrames = 0, !.reps = e.reps + 1,
                   !.lastRepTime = t]
    ELSE IF Gt(a, A_DOWN + HYSTERESIS)
         THEN [e EXCEPT !.phase = "GOING_UP", !.holdFrames = 0]
         ELSE e

tickDOWN(e, a, t, A_UP, A_DOWN) ==
    IF Gt(a, A_DOWN + HYSTERESIS)
    THEN [e EXCEPT !.phase = "GOING_UP", !.holdFrames = 0]
    ELSE e

tickGOING_UP_debounce2(e, a, t, A_UP, A_DOWN) ==
    IF Ge(a, A_UP)
    THEN IF e.holdFrames + 1 >= DEBOUNCE_FRAMES - 1
         THEN IF RepGate(e, t)
              THEN [e EXCEPT !.phase = "UP", !.holdFrames = 0,
                             !.reps = e.reps + 1, !.lastRepTime = t]
              ELSE [e EXCEPT !.phase = "UP", !.holdFrames = 0]
         ELSE [e EXCEPT !.holdFrames = e.holdFrames + 1]
    ELSE IF Le(a, A_DOWN)
         THEN [e EXCEPT !.phase = "DOWN", !.holdFrames = 0]
         ELSE [e EXCEPT !.holdFrames = 0]

tickGOING_UP_undo(e, a, t, A_UP, A_DOWN) ==
    IF Ge(a, A_UP)
    THEN IF e.holdFrames + 1 >= DEBOUNCE_FRAMES
         THEN IF RepGate(e, t)
              THEN [e EXCEPT !.phase = "UP", !.holdFrames = 0,
                             !.reps = e.reps + 1, !.lastRepTime = t]
              ELSE [e EXCEPT !.phase = "UP", !.holdFrames = 0,
                             !.reps = e.reps - 1]
         ELSE [e EXCEPT !.holdFrames = e.holdFrames + 1]
    ELSE IF Le(a, A_DOWN)
         THEN [e EXCEPT !.phase = "DOWN", !.holdFrames = 0]
         ELSE [e EXCEPT !.holdFrames = 0]

tickGOING_UP_stampAlways(e, a, t, A_UP, A_DOWN) ==
    IF Ge(a, A_UP)
    THEN IF e.holdFrames + 1 >= DEBOUNCE_FRAMES
         THEN IF RepGate(e, t)
              THEN [e EXCEPT !.phase = "UP", !.holdFrames = 0,
                             !.reps = e.reps + 1, !.lastRepTime = t]
              ELSE [e EXCEPT !.phase = "UP", !.holdFrames = 0,
                             !.lastRepTime = t]
         ELSE [e EXCEPT !.holdFrames = e.holdFrames + 1]
    ELSE IF Le(a, A_DOWN)
         THEN [e EXCEPT !.phase = "DOWN", !.holdFrames = 0]
         ELSE [e EXCEPT !.holdFrames = 0]

tickGOING_UP_strict(e, a, t, A_UP, A_DOWN) ==
    IF Gt(a, A_UP)
    THEN IF e.holdFrames + 1 >= DEBOUNCE_FRAMES
         THEN IF RepGate(e, t)
              THEN [e EXCEPT !.phase = "UP", !.holdFrames = 0,
                             !.reps = e.reps + 1, !.lastRepTime = t]
              ELSE [e EXCEPT !.phase = "UP", !.holdFrames = 0]
         ELSE [e EXCEPT !.holdFrames = e.holdFrames + 1]
    ELSE IF Le(a, A_DOWN)
         THEN [e EXCEPT !.phase = "DOWN", !.holdFrames = 0]
         ELSE [e EXCEPT !.holdFrames = 0]

tickGOING_UP(e, a, t, A_UP, A_DOWN) ==
    IF Ge(a, A_UP)
    THEN IF e.holdFrames + 1 >= DEBOUNCE_FRAMES
         THEN IF RepGate(e, t)
              THEN [e EXCEPT !.phase = "UP", !.holdFrames = 0,
                             !.reps = e.reps + 1, !.lastRepTime = t]
              ELSE [e EXCEPT !.phase = "UP", !.holdFrames = 0]
         ELSE [e EXCEPT !.holdFrames = e.holdFrames + 1]
    ELSE IF Le(a, A_DOWN)
         THEN [e EXCEPT !.phase = "DOWN", !.holdFrames = 0]
         ELSE [e EXCEPT !.holdFrames = 0]

tickRepEngine(e, a, t, A_UP, A_DOWN) ==
    CASE e.phase = "UP"         -> tickUP(e, a, t, A_UP, A_DOWN)
      [] e.phase = "GOING_DOWN" -> tickGOING_DOWN(e, a, t, A_UP, A_DOWN)
      [] e.phase = "DOWN"       -> tickDOWN(e, a, t, A_UP, A_DOWN)
      [] e.phase = "GOING_UP"   -> tickGOING_UP(e, a, t, A_UP, A_DOWN)

----------------------------------------------------------------------------
(* Bounds of the engine-level specification                                *)

MaxNow == 1000

Deltas == {25, 100}

Angles == {90, 95, 100, 120, 130, 150, 155, 160, 170}

ThresholdChoices == {[A_UP |-> 155, A_DOWN |-> 90], [A_UP |-> 155, A_DOWN |-> 95]}

\* The example of the specification, section 8.
Scenario == <<170, 170, 150, 120, 90, 90, 90, 130, 160, 170, 170>>

ScenarioThresholds == [A_UP |-> 155, A_DOWN |-> 90]

ScenarioTimes == <<0, 100, 200, 300, 400, 500, 600, 700, 800, 900, 1000>>

MonCap == DEBOUNCE_FRAMES + 1

Min(a, b) == IF a <= b THEN a ELSE b

Max(a, b) == IF a >= b THEN a ELSE b

----------------------------------------------------------------------------
(* History variables: functions of the ticks fed so far.                   *)

\* Consecutive ticks in a candidate phase with its condition true.
StreakAfter(e, a, A_UP, A_DOWN) ==
    IF \/ e.phase = "GOING_DOWN" /\ Le(a, A_DOWN)
       \/ e.phase = "GOING_UP" /\ Ge(a, A_UP)
    THEN streak + 1
    ELSE 0

MonIdle == [stage |-> "none", lows |-> 0, highs |-> 0, startReps |-> 0, lowEnd |-> 0]

\* The input pattern: a tick with angle >= A_UP that leaves the engine in UP,
\* then ticks with angle <= A_DOWN, then ticks with angle >= A_UP.
MonAfter(e, e2, a, t, A_UP, A_DOWN) ==
    IF Ge(a, A_UP)
    THEN CASE mon.stage = "low"  -> [mon EXCEPT !.stage = "high", !.highs = 1]
           [] mon.stage = "high" -> [mon EXCEPT !.highs = Min(mon.highs + 1, MonCap)]
           [] OTHER -> IF e2.phase = "UP"
                       THEN [MonIdle EXCEPT !.stage = "top"]
                       ELSE MonIdle
    ELSE IF Le(a, A_DOWN)
    THEN CASE mon.stage = "top" \/ (mon.stage = "high" /\ e.phase = "UP") ->
                [stage |-> "low", lows |-> 1, highs |-> 0,
                 startReps |-> e.reps, lowEnd |-> t]
           [] mon.stage = "low" ->
                [mon EXCEPT !.lows = Min(mon.lows + 1, MonCap), !.lowEnd = t]
           [] OTHER -> MonIdle
    ELSE MonIdle

ScenAfter(a, t) ==
    IF /\ scen >= 0
       /\ scen < Len(Scenario)
       /\ thresholds = ScenarioThresholds
       /\ a = Scenario[scen + 1]
       /\ t = ScenarioTimes[scen + 1]
    THEN scen + 1
    ELSE None


----------------------------------------------------------------------------
(* lib/poseMath.ts: calculateAngle.  Angles are kept in degrees; the       *)
(* vectors are those whose direction is a whole multiple of 45 degrees (or *)
(* the zero vector), on which Math.atan2 and the conversion are exact.  A  *)
(* Point is the pair <<x, y>>.                                             *)

Abs(v) == IF v < 0 THEN 0 - v ELSE v

PointX(p) == p[1]

PointY(p) == p[2]

\* Math.atan2(dy, dx), in degrees, in (-180, 180]; 0 for the zero vector.
Atan2Deg(dy, dx) ==
    CASE dy = 0 /\ dx >= 0 -> 0
      [] dy = 0 /\ dx < 0  -> 180
      [] dx = 0 /\ dy > 0  -> 90
      [] dx = 0 /\ dy < 0  -> 0 - 90
      [] dx > 0 /\ dy > 0  -> 45
      [] dx < 0 /\ dy > 0  -> 135
      [] dx < 0 /\ dy < 0  -> 0 - 135
      [] dx > 0 /\ dy < 0  -> 0 - 45

calculateAngle_noFold(A, B, C) ==
    Abs(Atan2Deg(PointY(C) - PointY(B), PointX(C) - PointX(B))
        - Atan2Deg(PointY(A) - PointY(B), PointX(A) - PointX(B)))

calculateAngle(A, B, C) ==
    LET degrees == Atan2Deg(PointY(C) - PointY(B), PointX(C) - PointX(B))
                   - Atan2Deg(PointY(A) - PointY(B), PointX(A) - PointX(B))
        a       == Abs(degrees)
    IN  IF a > 180 THEN 360 - a ELSE a

----------------------------------------------------------------------------
(* lib/poseMath.ts: EMA, clamp, BodyDepthTracker                           *)

\* The grid of the lengths, in pixels: a blended value is truncated to it.
Quantum == 6

\* An EMA is <<>> while its value is null and <<v>> afterwards.  alpha is
\* given in percent.
EMA_new == <<>>

EMA_add_noSeed(ema, raw, alphaPct) ==
    LET old == IF ema = <<>> THEN 0 ELSE ema[1]
    IN  <<((alphaPct * raw + (100 - alphaPct) * old) \div (100 * Quantum))
          * Quantum>>

EMA_add(ema, raw, alphaPct) ==
    IF ema = <<>>
    THEN <<raw>>
    ELSE <<((alphaPct * raw + (100 - alphaPct) * ema[1]) \div (100 * Quantum))
           * Quantum>>

EMA_get(ema) == IF ema = <<>> THEN 0 ELSE ema[1]

EMA_reset(ema) == <<>>

clamp_noFloor(v, lo, hi) == Min(hi, v)

clamp(v, lo, hi) == Max(lo, Min(hi, v))

BASELINE_ALPHA_PCT == 10

FRONT_FACTOR_PCT == 10

SIDE_FACTOR_PCT == 6

FRONT_MIN_PX == 18

SIDE_MIN_PX == 12

BodyDepthTracker ==
    [baselineY |-> EMA_new, maxDownY |-> -1, requiredDropPx |-> 0]

updateBaseline(dt, y) ==
    [dt EXCEPT !.baselineY = EMA_add(dt.baselineY, y, BASELINE_ALPHA_PCT)]

trackDepth(dt, y) ==
    IF dt.maxDownY = -1 \/ y > dt.maxDownY
    THEN [dt EXCEPT !.maxDownY = y]
    ELSE dt

setRequiredDrop_noFloor(dt, shoulderWidthPx, m) ==
    LET factor == IF m = "front" THEN FRONT_FACTOR_PCT ELSE SIDE_FACTOR_PCT
    IN  [dt EXCEPT !.requiredDropPx = (shoulderWidthPx * factor) \div 100]

setRequiredDrop(dt, shoulderWidthPx, m) ==
    LET factor == IF m = "front" THEN FRONT_FACTOR_PCT ELSE SIDE_FACTOR_PCT
        minPx  == IF m = "front" THEN FRONT_MIN_PX ELSE SIDE_MIN_PX
    IN  [dt EXCEPT !.requiredDropPx = Max((shoulderWidthPx * factor) \div 100, minPx)]

checkValidity(dt) ==
    LET baseline == EMA_get(dt.baselineY)
    IN  IF baseline = 0 \/ dt.maxDownY = -1
        THEN FALSE
        ELSE (dt.maxDownY - baseline) >= dt.requiredDropPx

resetRep(dt) == [dt EXCEPT !.maxDownY = -1]

----------------------------------------------------------------------------
(* lib/workoutStats.ts.  A date is a day number.  The stored item is the   *)
(* JSON text of a WorkoutStats object, kept as the tuple of its values in  *)
(* the order JSON.stringify writes them; NoItem stands for a missing item. *)

NoItem == <<>>

getInitialStats(day) ==
    [allTimeBest |-> 0, todayBest |-> 0, todayTotal |-> 0, totalSessions |-> 0,
     lastWorkoutDate |-> day]

Stringify(stats) ==
    <<stats.allTimeBest, stats.todayBest, stats.todayTotal, stats.totalSessions,
      stats.lastWorkoutDate>>

Parse(item) ==
    [allTimeBest |-> item[1], todayBest |-> item[2], todayTotal |-> item[3],
     totalSessions |-> item[4], lastWorkoutDate |-> item[5]]

getWorkoutStats_noDailyReset(item, day) ==
    IF item = NoItem THEN getInitialStats(day) ELSE Parse(item)

getWorkoutStats(item, day) ==
    IF item = NoItem
    THEN getInitialStats(day)
    ELSE LET stats == Parse(item)
         IN  IF stats.lastWorkoutDate # day
             THEN [stats EXCEPT !.todayBest = 0, !.todayTotal = 0,
                                !.lastWorkoutDate = day]
             ELSE stats

\* saveWorkoutSession: <<the item stored afterwards, the value returned>>.
\* A call is short: its reads of the clock (line 55, and line 32 inside
\* getWorkoutStats) return the same date, day.
saveWorkoutSession_savesZero(item, day, reps) ==
    IF reps < 0
    THEN <<item, getWorkoutStats(item, day)>>
    ELSE LET stats    == getWorkoutStats(item, day)
             newStats == [allTimeBest |-> Max(stats.allTimeBest, reps),
                          todayBest |-> Max(stats.todayBest, reps),
                          todayTotal |-> stats.todayTotal + reps,
                          totalSessions |-> stats.totalSessions + 1,
                          lastWorkoutDate |-> day]
         IN  <<Stringify(newStats), newStats>>

saveWorkoutSession(item, day, reps) ==
    IF reps <= 0
    THEN <<item, getWorkoutStats(item, day)>>
    ELSE LET stats    == getWorkoutStats(item, day)
             newStats == [allTimeBest |-> Max(stats.allTimeBest, reps),
                          todayBest |-> Max(stats.todayBest, reps),
                          todayTotal |-> stats.todayTotal + reps,
                          totalSessions |-> stats.totalSessions + 1,
                          lastWorkoutDate |-> day]
         IN  <<Stringify(newStats), newStats>>

\* app/results/page.tsx: the stats state while it is null.
NoStats == <<>>

\* The body of the page's effect, from the reps parameter, the hasSaved and
\* stats states of the render it belongs to, the stored item and the date:
\* <<the item stored afterwards, the stats state set, the hasSaved state
\*   set, the number of saveWorkoutSession invocations>>.
ResultsEffect_noGuard(reps, saved, stats, item, day) ==
    IF Gt(reps, 0)
    THEN LET r == saveWorkoutSession(item, day, reps)
         IN  <<r[1], r[2], TRUE, 1>>
    ELSE IF ~saved
         THEN <<item, getWorkoutStats(item, day), saved, 0>>
         ELSE <<item, stats, saved, 0>>

ResultsEffect(reps, saved, stats, item, day) ==
    IF Gt(reps, 0) /\ ~saved
    THEN LET r == saveWorkoutSession(item, day, reps)
         IN  <<r[1], r[2], TRUE, 1>>
    ELSE IF ~saved
         THEN <<item, getWorkoutStats(item, day), saved, 0>>
         ELSE <<item, stats, saved, 0>>

----------------------------------------------------------------------------
(* components/PoseOverlay.tsx: constants and the counting stage of detect  *)

A_DOWN_FIXED == 95

CALIBRATION_FRAMES == 60

DYNAMIC_UP_INITIAL == 150

DYNAMIC_UP_LO == 140

DYNAMIC_UP_HI == 160

CALIBRATION_MARGIN == 5

\* detect, lines 501-503: the smoothed left and right elbow angles of a
\* front-mode frame become <<elbowAngle, isSymmetric>>.
SYMMETRY_TOLERANCE == 30

reconcileFront_max(LA, RA) ==
    LET angleDiff   == Abs(LA - RA)
        isSymmetric == angleDiff <= SYMMETRY_TOLERANCE
    IN  <<IF isSymmetric THEN (LA + RA) \div 2 ELSE Max(LA, RA), isSymmetric>>

reconcileFront(LA, RA) ==
    LET angleDiff   == Abs(LA - RA)
        isSymmetric == angleDiff <= SYMMETRY_TOLERANCE
    IN  <<IF isSymmetric THEN (LA + RA) \div 2 ELSE Min(LA, RA), isSymmetric>>

\* The depth step of a visible frame, by the phase before the tick.
DepthStep_alwaysBaseline(dt, phase, y, w, m) ==
    updateBaseline(setRequiredDrop(dt, w, m), y)

DepthStep(dt, phase, y, w, m) ==
    LET d1 == setRequiredDrop(dt, w, m)
    IN  IF phase = "UP" THEN updateBaseline(d1, y) ELSE trackDepth(d1, y)

\* "if (!isValidRepRef.current) engine.reps--" on a confirming frame.
Rollback_never(e, valid) == e

Rollback(e, valid) ==
    IF ~valid THEN [e EXCEPT !.reps = e.reps - 1] ELSE e

\* The engine after the tick and the rollback step of one frame.
CountStep(e, valid, a, t, A_UP) ==
    LET e1 == tickRepEngine(e, a, t, A_UP, A_DOWN_FIXED)
    IN  IF e.phase = "GOING_UP" /\ e1.phase = "UP" THEN Rollback(e1, valid) ELSE e1

\* isValidRepRef after the frame.
LatchStep(valid, phaseBefore, phaseAfter, depthOk) ==
    IF phaseBefore = "GOING_UP" /\ phaseAfter = "UP" THEN TRUE
    ELSE IF phaseAfter = "GOING_UP" /\ phaseBefore = "DOWN" /\ ~depthOk THEN FALSE
    ELSE valid

----------------------------------------------------------------------------
(* Bounds of the component-level specification                             *)

FrameDeltas == {50, 100}

FrameAngles == {90, 120, 150, 165}

Ys == {60, 78}

Widths == {150}

MaxModeChanges == 1

MaxClock == 800

Modes == {"side", "front"}

OverlayInit ==
    /\ mode = "side"
    /\ depthTracker = BodyDepthTracker
    /\ isValidRep = TRUE
    /\ lastRepCount = 0
    /\ lastPhase = "UP"
    /\ calibrationFrames = 0
    /\ maxAngleAccum = 0
    /\ dynamicUp = DYNAMIC_UP_INITIAL
    /\ shownReps = 0
    /\ shownPhase = "UP"
    /\ lastOp = "init"
    /\ repsBefore = 0
    /\ cycleEverValid = FALSE
    /\ cycleMaxY = None
    /\ modeChanges = 0
    /\ primed = {}
    /\ rolledBack = FALSE
    /\ confirmDepthOk = FALSE

\* app/workout/page.tsx: the page's state before a session is started.
PageInit ==
    /\ status = "Ready"
    /\ pageReps = 0
    /\ baseReps = 0
    /\ handedReps = None

\* The loop effect has run once on mount: its start timer is pending.  The
\* page passes isRunning = false while it initialises, and usePose() has not
\* delivered the landmarker yet.
LoopInit ==
    /\ isRunning = FALSE
    /\ landmarker = FALSE
    /\ effActive = TRUE
    /\ timerCurrent = TRUE
    /\ timersStale = 0
    /\ rafCurrent = FALSE
    /\ rafOrphans = 0
    /\ lastTime = -1
    /\ effects = 1
    /\ frameVis = None

\* The library objects exercised on their own (SpecTracker, SpecEMA,
\* SpecAngle, SpecFront) before any call.
NoCall == [op |-> "none"]

TrackerInit ==
    /\ trackedYs = {}
    /\ baselineFed = FALSE
    /\ lastCall = NoCall

EMAInit ==
    /\ emaValue = EMA_new
    /\ emaAlpha = BASELINE_ALPHA_PCT
    /\ emaOut = None
    /\ emaFed = <<>>

AngleInit ==
    /\ pts = <<>>
    /\ angle = None

FrontInit ==
    /\ arms = <<>>
    /\ fed = <<>>

RunInit ==
    /\ highRun = 0
    /\ lowRun = 0

\* lib/workoutStats.ts: nothing stored yet.
StatsInit ==
    /\ storage = NoItem
    /\ today = 0
    /\ saves = 0

\* The results page before the first navigation to it.
ResultsInit ==
    /\ mounted = FALSE
    /\ mounts = 0
    /\ resReps = 0
    /\ hasSaved = FALSE
    /\ pageStats = NoStats
    /\ effectDue = FALSE
    /\ pageSaves = 0

UnitInit ==
    /\ TrackerInit
    /\ EMAInit
    /\ AngleInit
    /\ FrontInit
    /\ RunInit
    /\ StatsInit
    /\ ResultsInit

----------------------------------------------------------------------------
(* SpecEngine: tickRepEngine called with strictly increasing clock values  *)

InitEngine ==
    /\ engine = createRepEngine
    /\ now = 0
    /\ elbowAngle = None
    /\ thresholds \in ThresholdChoices
    /\ streak = 0
    /\ lastIncTime = None
    /\ cycleStartReps = 0
    /\ mon = MonIdle
    /\ scen = 0
    /\ prevPhase = "UP"
    /\ OverlayInit
    /\ PageInit
    /\ LoopInit
    /\ UnitInit

\* One call tickRepEngine(engine, a, now + d, A_UP, A_DOWN).  The first call
\* may read the clock at its origin.
TickEngine(a, d) ==
    LET t  == now + d
        e2 == tickRepEngine(engine, a, t, thresholds.A_UP, thresholds.A_DOWN)
    IN  /\ d \in Deltas \/ (d = 0 /\ elbowAngle = None)
        /\ t <= MaxNow
        /\ engine' = e2
        /\ now' = t
        /\ elbowAngle' = a
        /\ streak' = StreakAfter(engine, a, thresholds.A_UP, thresholds.A_DOWN)
        /\ lastIncTime' = IF e2.reps > engine.reps THEN t ELSE lastIncTime
        /\ cycleStartReps' = IF engine.phase = "UP" THEN engine.reps
                             ELSE cycleStartReps
        /\ mon' = MonAfter(engine, e2, a, t, thresholds.A_UP, thresholds.A_DOWN)
        /\ scen' = ScenAfter(a, t)
        /\ prevPhase' = engine.phase
        /\ UNCHANGED <<thresholds, overlayVars, pageVars, loopVars>>

Tick(a, d) ==
    /\ TickEngine(a, d)
    /\ UNCHANGED unitVars

NextEngine == \E a \in Angles, d \in Deltas \cup {0} : Tick(a, d)

SpecEngine == InitEngine /\ [][NextEngine]_vars


----------------------------------------------------------------------------
(* SpecMalformed: tickRepEngine fed plausible and malformed angles          *)

PLAUSIBLE_MIN == 0

PLAUSIBLE_MAX == 180

Malformed(a) == a = NaN \/ a < PLAUSIBLE_MIN \/ a > PLAUSIBLE_MAX

MalformedAngles == {NaN, 0 - 10, 200}

PlainAngles == {90, 120, 170}

MalformedDeltas == {100}

NextMalformed ==
    \E a \in PlainAngles \cup MalformedAngles, d \in MalformedDeltas \cup {0} :
        Tick(a, d)

SpecMalformed == InitEngine /\ [][NextMalformed]_vars

----------------------------------------------------------------------------
(* SpecConfig: tickRepEngine called with the threshold pair its caller     *)
(* passes, valid (A_DOWN < A_UP) or not.  Neither createRepEngine nor      *)
(* tickRepEngine looks at the relation between the two thresholds.         *)

InvalidThresholds == {[A_UP |-> 90, A_DOWN |-> 95], [A_UP |-> 95, A_DOWN |-> 95]}

ConfigAngles == {80, 93, 100, 170}

ConfigDeltas == {100}

InitConfig ==
    /\ engine = createRepEngine
    /\ now = 0
    /\ elbowAngle = None
    /\ thresholds \in ThresholdChoices \cup InvalidThresholds
    /\ streak = 0
    /\ lastIncTime = None
    /\ cycleStartReps = 0
    /\ mon = MonIdle
    /\ scen = None
    /\ prevPhase = "UP"
    /\ OverlayInit
    /\ PageInit
    /\ LoopInit
    /\ UnitInit

NextConfig ==
    \E a \in ConfigAngles, d \in ConfigDeltas \cup {0} : Tick(a, d)

SpecConfig == InitConfig /\ [][NextConfig]_vars

----------------------------------------------------------------------------
(* SpecRun: tickRepEngine under threshold pairs with a mid band            *)
(* (A_DOWN + 5 < A_UP - 5), the narrowest one included, with the lengths   *)
(* of the current runs of high and of low angles recorded.                 *)

RunThresholds == ThresholdChoices \cup {[A_UP |-> 106, A_DOWN |-> 95]}

RunAngles == {90, 95, 100, 120, 155, 170}

RunDeltas == {100}

RunCap == DEBOUNCE_FRAMES + 1

InitRun ==
    /\ engine = createRepEngine
    /\ now = 0
    /\ elbowAngle = None
    /\ thresholds \in RunThresholds
    /\ streak = 0
    /\ lastIncTime = None
    /\ cycleStartReps = 0
    /\ mon = MonIdle
    /\ scen = None
    /\ prevPhase = "UP"
    /\ OverlayInit
    /\ PageInit
    /\ LoopInit
    /\ UnitInit

RunTick(a, d) ==
    /\ TickEngine(a, d)
    /\ highRun' = IF Ge(a, thresholds.A_UP) THEN Min(highRun + 1, RunCap) ELSE 0
    /\ lowRun' = IF Le(a, thresholds.A_DOWN) THEN Min(lowRun + 1, RunCap) ELSE 0
    /\ UNCHANGED <<harnessVars, statsVars, resultsVars>>

NextRun ==
    \E a \in RunAngles, d \in RunDeltas \cup {0} : RunTick(a, d)

SpecRun == InitRun /\ [][NextRun]_vars

----------------------------------------------------------------------------
(* Spec: the component.  A frame is a visible frame that reached the       *)
(* counting stage; its inputs are the smoothed elbow angle a, the shoulder *)
(* height y and the shoulder width w in pixels.  The clock is read only by *)
(* a frame that ticks the engine.  Within one calibration window the angle *)
(* input is held constant, so that the average over the window is exact.   *)

ComponentInit ==
    /\ engine = createRepEngine
    /\ now = 0
    /\ elbowAngle = None
    /\ thresholds = [A_UP |-> DYNAMIC_UP_INITIAL, A_DOWN |-> A_DOWN_FIXED]
    /\ streak = 0
    /\ lastIncTime = None
    /\ cycleStartReps = 0
    /\ mon = MonIdle
    /\ scen = None
    /\ prevPhase = "UP"
    /\ OverlayInit
    /\ PageInit
    /\ LoopInit

Init ==
    /\ ComponentInit
    /\ UnitInit

\* detect, lines 441-535: a visible frame inside the calibration window.
FrameCalibration(a, y, w) ==
    LET n   == calibrationFrames + 1
        sum == maxAngleAccum + a
    IN  /\ calibrationFrames < CALIBRATION_FRAMES
        /\ calibrationFrames = 0 \/ maxAngleAccum = a * calibrationFrames
        /\ primed' = primed \cup {mode}
        /\ depthTracker' = DepthStep(depthTracker, engine.phase, y, w, mode)
        /\ calibrationFrames' = n
        /\ maxAngleAccum' = sum
        /\ dynamicUp' = IF n = CALIBRATION_FRAMES
                        THEN clamp((sum \div CALIBRATION_FRAMES) - CALIBRATION_MARGIN,
                                   DYNAMIC_UP_LO, DYNAMIC_UP_HI)
                        ELSE dynamicUp
        /\ lastOp' = "calibrate"
        /\ repsBefore' = engine.reps
        /\ cycleEverValid' = FALSE
        /\ cycleMaxY' = None
        /\ rolledBack' = FALSE
        /\ confirmDepthOk' = FALSE
        /\ UNCHANGED <<engineVars, mode, isValidRep, lastRepCount, lastPhase,
                       shownReps, shownPhase, modeChanges, pageReps>>

CalibrationFrame(a, y, w) ==
    /\ FrameCalibration(a, y, w)
    /\ UNCHANGED <<status, baseReps, handedReps, loopVars, unitVars>>

\* detect, lines 441-559: a visible frame after calibration; t is the value
\* of performance.now() at line 539.  onRepChange is the page's setReps.
FrameTick(a, y, w, t) ==
    LET dt1     == DepthStep(depthTracker, engine.phase, y, w, mode)
        depthOk == checkValidity(dt1)
        e2      == CountStep(engine, isValidRep, a, t, dynamicUp)
        confirm == engine.phase = "GOING_UP" /\ e2.phase = "UP"
    IN  /\ calibrationFrames >= CALIBRATION_FRAMES
        /\ primed' = primed \cup {mode}
        /\ now' = t
        /\ engine' = e2
        /\ prevPhase' = engine.phase
        /\ depthTracker' = IF confirm THEN resetRep(dt1) ELSE dt1
        /\ isValidRep' = LatchStep(isValidRep, engine.phase, e2.phase, depthOk)
        /\ lastRepCount' = e2.reps
        /\ shownReps' = IF e2.reps # lastRepCount THEN e2.reps ELSE shownReps
        /\ pageReps' = IF e2.reps # lastRepCount THEN e2.reps ELSE pageReps
        /\ lastPhase' = e2.phase
        /\ shownPhase' = IF e2.phase # lastPhase THEN e2.phase ELSE shownPhase
        /\ lastOp' = "tick"
        /\ repsBefore' = engine.reps
        /\ cycleStartReps' = IF engine.phase = "UP" THEN engine.reps
                             ELSE cycleStartReps
        /\ cycleEverValid' = IF engine.phase = "UP" THEN FALSE
                             ELSE cycleEverValid \/ depthOk
        /\ cycleMaxY' = IF engine.phase = "UP" THEN None
                        ELSE Max(cycleMaxY, y)
        /\ rolledBack' = (confirm /\ ~isValidRep)
        /\ confirmDepthOk' = (confirm /\ depthOk)
        /\ UNCHANGED <<elbowAngle, thresholds, streak, lastIncTime, mon, scen,
                       mode, calibrationFrames, maxAngleAccum, dynamicUp,
                       modeChanges>>

TickFrame(a, y, w, d) ==
    /\ now + d <= MaxClock
    /\ FrameTick(a, y, w, now + d)
    /\ UNCHANGED <<status, baseReps, handedReps, loopVars, unitVars>>

\* useEffect on [mode], lines 606-613.
ModeReset(m) ==
    /\ m # mode
    /\ modeChanges < MaxModeChanges
    /\ modeChanges' = modeChanges + 1
    /\ mode' = m
    /\ engine' = createRepEngine
    /\ lastRepCount' = 0
    /\ calibrationFrames' = 0
    /\ maxAngleAccum' = 0
    /\ depthTracker' = BodyDepthTracker
    /\ lastOp' = "mode"
    /\ prevPhase' = "UP"
    /\ repsBefore' = engine.reps
    /\ cycleStartReps' = 0
    /\ cycleEverValid' = FALSE
    /\ cycleMaxY' = None
    /\ rolledBack' = FALSE
    /\ confirmDepthOk' = FALSE
    /\ UNCHANGED <<now, elbowAngle, thresholds, streak, lastIncTime, mon, scen,
                   isValidRep, lastPhase, dynamicUp, shownReps, shownPhase,
                   primed, pageVars>>

ModeChange(m) ==
    /\ ModeReset(m)
    /\ UNCHANGED <<loopVars, unitVars>>

Next ==
    \/ \E a \in FrameAngles, y \in Ys, w \in Widths : CalibrationFrame(a, y, w)
    \/ \E a \in FrameAngles, y \in Ys, w \in Widths, d \in FrameDeltas :
          TickFrame(a, y, w, d)
    \/ \E m \in Modes : ModeChange(m)

Spec == Init /\ [][Next]_vars

----------------------------------------------------------------------------
(* SpecSession: the counting stage under the session controls of the       *)
(* workout page.  The overlay is mounted with the page and processes       *)
(* frames whatever the session status is.                                  *)

MaxSessionClock == 1600

SessionAngles == {90, 165}

SessionCalibrationAngles == {165}

SessionDeltas == {100}

SessionWidths == {150}

\* A visible frame after calibration.
SessionFrame(a, y, w, d) ==
    /\ now + d <= MaxSessionClock
    /\ FrameTick(a, y, w, now + d)
    /\ UNCHANGED <<status, baseReps, handedReps, loopVars, unitVars>>

\* page.tsx, lines 54-58: the Start Session button, shown while Ready.
startSession ==
    /\ status = "Ready"
    /\ status' = "Recording"
    /\ pageReps' = 0
    /\ baseReps' = engine.reps
    /\ lastOp' = "start"
    /\ UNCHANGED <<engineVars, mode, depthTracker, isValidRep, lastRepCount,
                   lastPhase, calibrationFrames, maxAngleAccum, dynamicUp,
                   shownReps, shownPhase, repsBefore, cycleEverValid, cycleMaxY,
                   modeChanges, primed, rolledBack, confirmDepthOk,
                   handedReps, loopVars, unitVars>>

\* page.tsx, lines 60-68: the Finish Session button, shown while Recording.
\* The redirect that fires later carries the reps of this render.
finishSession ==
    /\ status = "Recording"
    /\ status' = "Finished"
    /\ handedReps' = pageReps
    /\ lastOp' = "finish"
    /\ UNCHANGED <<engineVars, mode, depthTracker, isValidRep, lastRepCount,
                   lastPhase, calibrationFrames, maxAngleAccum, dynamicUp,
                   shownReps, shownPhase, repsBefore, cycleEverValid, cycleMaxY,
                   modeChanges, primed, rolledBack, confirmDepthOk,
                   pageReps, baseReps, loopVars, unitVars>>

NextSession ==
    \/ \E a \in SessionCalibrationAngles, y \in Ys, w \in SessionWidths :
          CalibrationFrame(a, y, w)
    \/ \E a \in SessionAngles, y \in Ys, w \in SessionWidths, d \in SessionDeltas :
          SessionFrame(a, y, w, d)
    \/ startSession
    \/ finishSession

SpecSession == Init /\ [][NextSession]_vars

----------------------------------------------------------------------------
(* SpecLoop: the animation-frame loop.  Callbacks run to completion, one   *)
(* at a time: a pending start timer, a pending detect callback, a change   *)
(* of a prop (which re-runs the loop effect) or the unmount.  The clock    *)
(* value read by a frame that ticks the engine is the frame's timestamp.   *)

VIS_SIDE == 50

VIS_FRONT == 55

MaxEffects == 4

MaxStamp == 3400

StampStep == 50

VisLevels == {50, 55, 60}

LoopAngles == {90, 165}

LoopCalibrationAngles == {165}

LoopYs == {60}

\* Timestamps the browser may pass to the next detect callback.
FrameStamps ==
    {ts \in {lastTime - StampStep, lastTime, lastTime + StampStep} :
        ts >= 0 /\ ts <= MaxStamp}

\* detect, lines 449 and 488: every required landmark is above the threshold
\* of the mode; vis is the lowest visibility among them.
Visible_atLeast(vis, m) ==
    vis >= (IF m = "side" THEN VIS_SIDE ELSE VIS_FRONT)

Visible(vis, m) ==
    vis > (IF m = "side" THEN VIS_SIDE ELSE VIS_FRONT)

\* detect, line 415: the timestamp gate.
StaleStamp_strict(ts, last) == ts < last

StaleStamp(ts, last) == ts <= last

\* cancelAnimationFrame(animFrameRef.current): is the callback whose id is
\* in animFrameRef still pending afterwards?
CancelFrame_not(cur) == cur

CancelFrame(cur) == FALSE

\* The state every exit path of detect must preserve when it skips a frame.
coreState ==
    <<engine, depthTracker, primed, isValidRep, calibrationFrames,
      maxAngleAccum, dynamicUp, lastRepCount, lastPhase, shownReps,
      shownPhase, pageReps>>

frameHistory ==
    <<now, prevPhase, cycleStartReps, repsBefore, cycleEverValid, cycleMaxY,
      rolledBack, confirmDepthOk>>

\* The browser takes a pending detect callback off its list and calls it:
\* the one whose id is in animFrameRef (cur) or another one.
TakeFrame(cur) ==
    IF cur THEN rafCurrent ELSE rafOrphans > 0

\* animFrameRef.current = requestAnimationFrame(detect), after TakeFrame(cur).
RequestFrame(cur) ==
    /\ rafCurrent' = TRUE
    /\ rafOrphans' = IF cur THEN rafOrphans
                     ELSE IF rafCurrent THEN rafOrphans ELSE rafOrphans - 1

\* detect returns without requesting a frame, after TakeFrame(cur).
NoRequest(cur) ==
    /\ rafCurrent' = IF cur THEN FALSE ELSE rafCurrent
    /\ rafOrphans' = IF cur THEN rafOrphans ELSE rafOrphans - 1

\* Lines 598-603: the cleanup of the current effect instance followed by the
\* run of the next one, when isRunning, detect or landmarker changed.
EffectRerun ==
    /\ effActive
    /\ effects < MaxEffects
    /\ effects' = effects + 1
    /\ effActive' = TRUE
    /\ timerCurrent' = TRUE
    /\ timersStale' = timersStale + (IF timerCurrent THEN 1 ELSE 0)
    /\ rafCurrent' = CancelFrame(rafCurrent)
    /\ UNCHANGED <<rafOrphans, lastTime>>
    /\ frameVis' = None

overlayFrozen ==
    <<mode, depthTracker, isValidRep, lastRepCount, lastPhase,
      calibrationFrames, maxAngleAccum, dynamicUp, shownReps, shownPhase,
      repsBefore, cycleEverValid, cycleMaxY, modeChanges, primed, rolledBack,
      confirmDepthOk>>

\* The page changes the isRunning prop.
SetRunning(b) ==
    /\ b # isRunning
    /\ isRunning' = b
    /\ EffectRerun
    /\ lastOp' = "running"
    /\ UNCHANGED <<landmarker, engineVars, overlayFrozen, pageVars, unitVars>>

\* usePose() delivers the landmarker: detect is re-created.
LandmarkerReady ==
    /\ ~landmarker
    /\ landmarker' = TRUE
    /\ EffectRerun
    /\ lastOp' = "landmarker"
    /\ UNCHANGED <<isRunning, engineVars, overlayFrozen, pageVars, unitVars>>

\* The mode prop changes: detect is re-created and the reset effect runs.
LoopModeChange(m) ==
    /\ ModeReset(m)
    /\ EffectRerun
    /\ UNCHANGED <<isRunning, landmarker, unitVars>>

\* The component unmounts: the cleanup of the current effect instance.
Unmount ==
    /\ effActive
    /\ effActive' = FALSE
    /\ timerCurrent' = FALSE
    /\ timersStale' = timersStale + (IF timerCurrent THEN 1 ELSE 0)
    /\ rafCurrent' = CancelFrame(rafCurrent)
    /\ frameVis' = None
    /\ lastOp' = "unmount"
    /\ UNCHANGED <<rafOrphans, lastTime, effects, isRunning, landmarker,
                   engineVars, overlayFrozen, pageVars, unitVars>>

\* Line 600: start, 600 ms after the current effect instance ran.
StartTimerFires ==
    /\ timerCurrent
    /\ timerCurrent' = FALSE
    /\ IF effActive /\ isRunning /\ landmarker
       THEN /\ rafCurrent' = TRUE
            /\ rafOrphans' = rafOrphans + (IF rafCurrent THEN 1 ELSE 0)
       ELSE UNCHANGED <<rafCurrent, rafOrphans>>
    /\ frameVis' = None
    /\ lastOp' = "timer"
    /\ UNCHANGED <<effActive, timersStale, lastTime, effects, isRunning,
                   landmarker, engineVars, overlayFrozen, pageVars, unitVars>>

\* Line 600: start of an effect instance whose cleanup has run (active is
\* false).
StaleTimerFires ==
    /\ timersStale > 0
    /\ timersStale' = timersStale - 1
    /\ frameVis' = None
    /\ lastOp' = "staleTimer"
    /\ UNCHANGED <<effActive, timerCurrent, rafCurrent, rafOrphans, lastTime,
                   effects, isRunning, landmarker, engineVars, overlayFrozen,
                   pageVars, unitVars>>

loopFrozen == <<isRunning, landmarker, effActive, timerCurrent, timersStale, effects>>

\* detect, lines 402-405: video or canvas missing, or the video not ready.
DetectNotReady(cur) ==
    /\ TakeFrame(cur)
    /\ RequestFrame(cur)
    /\ frameVis' = None
    /\ lastOp' = "notReady"
    /\ UNCHANGED <<lastTime, loopFrozen, engineVars, overlayFrozen, pageVars, unitVars>>

\* detect, lines 413-414: the canvas gives no 2d context.
DetectNoContext(cur) ==
    /\ TakeFrame(cur)
    /\ NoRequest(cur)
    /\ frameVis' = None
    /\ lastOp' = "noContext"
    /\ UNCHANGED <<lastTime, loopFrozen, engineVars, overlayFrozen, pageVars, unitVars>>

\* detect, lines 415-418: the timestamp gate drops the frame.
DetectStale(cur, ts) ==
    /\ TakeFrame(cur)
    /\ StaleStamp(ts, lastTime)
    /\ RequestFrame(cur)
    /\ frameVis' = None
    /\ lastOp' = "stale"
    /\ UNCHANGED <<lastTime, loopFrozen, engineVars, overlayFrozen, pageVars, unitVars>>

\* detect, lines 419-422 and 594-595: detectForVideo throws.
DetectThrows_restarts(cur, ts) ==
    /\ TakeFrame(cur)
    /\ ~StaleStamp(ts, lastTime)
    /\ lastTime' = ts
    /\ RequestFrame(cur)
    /\ frameVis' = None
    /\ lastOp' = "throw"
    /\ calibrationFrames' = 0
    /\ maxAngleAccum' = 0
    /\ UNCHANGED <<loopFrozen, engineVars, pageVars, unitVars, mode, depthTracker,
                   isValidRep, lastRepCount, lastPhase, dynamicUp, shownReps,
                   shownPhase, repsBefore, cycleEverValid, cycleMaxY,
                   modeChanges, primed, rolledBack, confirmDepthOk>>

DetectThrows(cur, ts) ==
    /\ TakeFrame(cur)
    /\ ~StaleStamp(ts, lastTime)
    /\ lastTime' = ts
    /\ RequestFrame(cur)
    /\ frameVis' = None
    /\ lastOp' = "throw"
    /\ UNCHANGED <<loopFrozen, engineVars, overlayFrozen, pageVars, unitVars>>

\* detect, lines 426 and 590-592: no landmarks in the result.
DetectNoLandmarks(cur, ts) ==
    /\ TakeFrame(cur)
    /\ ~StaleStamp(ts, lastTime)
    /\ lastTime' = ts
    /\ RequestFrame(cur)
    /\ frameVis' = None
    /\ lastOp' = "noLandmarks"
    /\ UNCHANGED <<loopFrozen, engineVars, overlayFrozen, pageVars, unitVars>>

\* detect, lines 449-453 and 488-492: the visibility gate skips the frame.
DetectInvisible(cur, ts, vis) ==
    /\ TakeFrame(cur)
    /\ ~StaleStamp(ts, lastTime)
    /\ ~Visible(vis, mode)
    /\ lastTime' = ts
    /\ RequestFrame(cur)
    /\ frameVis' = vis
    /\ lastOp' = "invisible"
    /\ UNCHANGED <<loopFrozen, engineVars, overlayFrozen, pageVars, unitVars>>

\* detect, lines 441-596: a visible frame reaches the counting stage.
DetectVisible(cur, ts, vis, a, y, w) ==
    /\ TakeFrame(cur)
    /\ ~StaleStamp(ts, lastTime)
    /\ Visible(vis, mode)
    /\ lastTime' = ts
    /\ RequestFrame(cur)
    /\ frameVis' = vis
    /\ \/ a \in LoopCalibrationAngles /\ FrameCalibration(a, y, w)
       \/ FrameTick(a, y, w, ts)
    /\ UNCHANGED <<loopFrozen, status, baseReps, handedReps, unitVars>>

NextLoop ==
    \/ \E b \in BOOLEAN : SetRunning(b)
    \/ LandmarkerReady
    \/ \E m \in Modes : LoopModeChange(m)
    \/ Unmount
    \/ StartTimerFires
    \/ StaleTimerFires
    \/ \E cur \in BOOLEAN : DetectNotReady(cur)
    \/ \E cur \in BOOLEAN : DetectNoContext(cur)
    \/ \E cur \in BOOLEAN, ts \in FrameStamps : DetectStale(cur, ts)
    \/ \E cur \in BOOLEAN, ts \in FrameStamps : DetectThrows(cur, ts)
    \/ \E cur \in BOOLEAN, ts \in FrameStamps : DetectNoLandmarks(cur, ts)
    \/ \E cur \in BOOLEAN, ts \in FrameStamps, vis \in VisLevels :
          DetectInvisible(cur, ts, vis)
    \/ \E cur \in BOOLEAN, ts \in FrameStamps, vis \in VisLevels,
          a \in LoopAngles, y \in LoopYs, w \in Widths :
          DetectVisible(cur, ts, vis, a, y, w)

SpecLoop == Init /\ [][NextLoop]_vars

----------------------------------------------------------------------------
(* SpecTracker: one BodyDepthTracker driven by an arbitrary sequence of    *)
(* calls of its methods.  checkValidity() and the getters do not change    *)
(* the tracker; they are evaluated on the state between calls.             *)

\* y arguments, in pixels: below zero, the value -1, zero and on screen.
TrackerYs == {0 - 6, 0 - 1, 0, 30}

\* Shoulder widths in pixels on which width * factor is a whole number.
TrackerWidths == {0, 150, 300}

\* What the calls of this specification leave alone.
trackerFrame ==
    <<engineVars, mode, isValidRep, lastRepCount, lastPhase, calibrationFrames,
      maxAngleAccum, dynamicUp, shownReps, shownPhase, lastOp, repsBefore,
      cycleEverValid, cycleMaxY, modeChanges, primed, rolledBack,
      confirmDepthOk, pageVars, loopVars, emaValue, emaAlpha, emaOut, emaFed,
      pts, angle, arms, fed, runVars, statsVars, resultsVars>>

callUpdateBaseline(y) ==
    /\ depthTracker' = updateBaseline(depthTracker, y)
    /\ baselineFed' = TRUE
    /\ lastCall' = [op |-> "updateBaseline", y |-> y]
    /\ UNCHANGED <<trackedYs, trackerFrame>>

callTrackDepth(y) ==
    /\ depthTracker' = trackDepth(depthTracker, y)
    /\ trackedYs' = trackedYs \cup {y}
    /\ lastCall' = [op |-> "trackDepth", y |-> y]
    /\ UNCHANGED <<baselineFed, trackerFrame>>

callSetRequiredDrop(w, m) ==
    /\ depthTracker' = setRequiredDrop(depthTracker, w, m)
    /\ lastCall' = [op |-> "setRequiredDrop", w |-> w, m |-> m]
    /\ UNCHANGED <<trackedYs, baselineFed, trackerFrame>>

callResetRep ==
    /\ depthTracker' = resetRep(depthTracker)
    /\ trackedYs' = {}
    /\ lastCall' = [op |-> "resetRep"]
    /\ UNCHANGED <<baselineFed, trackerFrame>>

NextTracker ==
    \/ \E y \in TrackerYs : callUpdateBaseline(y)
    \/ \E y \in TrackerYs : callTrackDepth(y)
    \/ \E w \in TrackerWidths, m \in Modes : callSetRequiredDrop(w, m)
    \/ callResetRep

SpecTracker == Init /\ [][NextTracker]_vars

----------------------------------------------------------------------------
(* SpecEMA: one EMA driven by an arbitrary sequence of add and reset       *)
(* calls.  The inputs lie on the grid of the lengths, where the blend of   *)
(* add is exact.                                                           *)

\* The alphas the repository constructs an EMA with, in percent:
\* BodyDepthTracker's baseline, the angle EMAs, the position smoothers.
EMAAlphas == {10, 35, 45}

EMAInputs == {0 - Quantum, 0, 2 * Quantum, 5 * Quantum}

\* The longest run of add calls without a reset.
MaxFed == 3

InitEMA ==
    /\ ComponentInit
    /\ TrackerInit
    /\ AngleInit
    /\ FrontInit
    /\ RunInit
    /\ StatsInit
    /\ ResultsInit
    /\ emaValue = EMA_new
    /\ emaAlpha \in EMAAlphas
    /\ emaOut = None
    /\ emaFed = <<>>

emaFrame ==
    <<engineVars, overlayVars, pageVars, loopVars, trackedYs, baselineFed,
      emaAlpha, pts, angle, arms, fed, runVars, statsVars, resultsVars>>

\* History: what the EMA last returned before the most recent reset.
BeforeReset == IF lastCall.op = "none" THEN None ELSE lastCall.beforeReset

\* add(raw): the value returned is the new value field.
callAdd(raw) ==
    LET v == EMA_add(emaValue, raw, emaAlpha)
    IN  /\ Len(emaFed) < MaxFed
        /\ emaValue' = v
        /\ emaOut' = EMA_get(v)
        /\ emaFed' = Append(emaFed, raw)
        /\ lastCall' = [op |-> "add", raw |-> raw, beforeReset |-> BeforeReset]
        /\ UNCHANGED emaFrame

\* reset(): beforeReset keeps what the EMA last returned before it.
callReset ==
    /\ emaValue' = EMA_reset(emaValue)
    /\ emaFed' = <<>>
    /\ lastCall' = [op |-> "reset", beforeReset |-> emaOut]
    /\ UNCHANGED <<emaOut, emaFrame>>

NextEMA ==
    \/ \E raw \in EMAInputs : callAdd(raw)
    \/ callReset

SpecEMA == InitEMA /\ [][NextEMA]_vars

----------------------------------------------------------------------------
(* SpecAngle: calculateAngle applied to points A, C placed around a vertex *)
(* B along the eight compass directions, or on B itself.                   *)

Reach == 2

\* Vectors <<dx, dy>> of up to Reach steps along an axis or a diagonal.
ExactVectors ==
    {v \in ((0 - Reach)..Reach) \X ((0 - Reach)..Reach) :
        v[1] = 0 \/ v[2] = 0 \/ Abs(v[1]) = Abs(v[2])}

Vertices == {<<0, 0>>, <<3, 0 - 1>>}

\* The Point at vertex b moved by v.
Shift(b, v) == <<PointX(b) + v[1], PointY(b) + v[2]>>

angleFrame ==
    <<engineVars, overlayVars, pageVars, loopVars, trackedYs, baselineFed,
      lastCall, emaValue, emaAlpha, emaOut, emaFed, arms, fed, runVars, statsVars, resultsVars>>

callCalculateAngle(A, B, C) ==
    /\ pts' = <<A, B, C>>
    /\ angle' = calculateAngle(A, B, C)
    /\ UNCHANGED angleFrame

NextAngle ==
    \E b \in Vertices, va \in ExactVectors, vc \in ExactVectors :
        callCalculateAngle(Shift(b, va), b, Shift(b, vc))

SpecAngle == Init /\ [][NextAngle]_vars

----------------------------------------------------------------------------
(* SpecFront: the front-mode reconciliation of the two elbow angles, for   *)
(* pairs of whole even degrees, on which the mean is a whole number.       *)

ArmAngles == {60, 80, 90, 100, 110, 120, 130, 140, 150, 160, 170, 180}

frontFrame ==
    <<engineVars, overlayVars, pageVars, loopVars, trackedYs, baselineFed,
      lastCall, emaValue, emaAlpha, emaOut, emaFed, pts, angle, runVars, statsVars,
      resultsVars>>

\* A front-mode frame whose smoothed elbow angles are LA and RA.
FrontAngles(LA, RA) ==
    /\ arms' = <<LA, RA>>
    /\ fed' = reconcileFront(LA, RA)
    /\ UNCHANGED frontFrame

NextFront == \E LA \in ArmAngles, RA \in ArmAngles : FrontAngles(LA, RA)

SpecFront == Init /\ [][NextFront]_vars

----------------------------------------------------------------------------
(* SpecStats: saveWorkoutSession and getWorkoutStats called one at a time  *)
(* on one browser's storage, with day changes in between.                  *)

MaxDay == 2

MaxSaves == 3

StatsReps == {0 - 2, 0, 1, 3}

statsFrame ==
    <<engineVars, overlayVars, pageVars, loopVars, trackedYs, baselineFed,
      emaValue, emaAlpha, emaOut, emaFed, pts, angle, arms, fed, runVars,
      resultsVars>>

callSaveWorkoutSession(reps) ==
    LET r == saveWorkoutSession(storage, today, reps)
    IN  /\ reps > 0 => saves < MaxSaves
        /\ storage' = r[1]
        /\ saves' = IF reps > 0 THEN saves + 1 ELSE saves
        /\ lastCall' = [op |-> "save", reps |-> reps, ret |-> r[2]]
        /\ UNCHANGED <<today, statsFrame>>

callGetWorkoutStats ==
    /\ lastCall' = [op |-> "get", ret |-> getWorkoutStats(storage, today)]
    /\ UNCHANGED <<storage, today, saves, statsFrame>>

\* Midnight (UTC) passes.
DayChange ==
    /\ today < MaxDay
    /\ today' = today + 1
    /\ lastCall' = [op |-> "day"]
    /\ UNCHANGED <<storage, saves, statsFrame>>

NextStats ==
    \/ \E reps \in StatsReps : callSaveWorkoutSession(reps)
    \/ callGetWorkoutStats
    \/ DayChange

SpecStats == Init /\ [][NextStats]_vars

----------------------------------------------------------------------------
(* SpecResults: the results page.  The reps search parameter is fixed for  *)
(* a mount; it is an integer or NaN (parseInt of a non-numeric text).  The *)
(* effect runs after the commit of the mount, and again after a commit     *)
(* that changed one of its dependencies [reps, hasSaved].  The two state   *)
(* updates of one effect run are committed together.                       *)

MaxMounts == 2

ResReps == {NaN, 0 - 1, 0, 2, 5}

resultsFrame ==
    <<engineVars, overlayVars, pageVars, loopVars, trackedYs, baselineFed,
      emaValue, emaAlpha, emaOut, emaFed, pts, angle, arms, fed, runVars>>

\* Navigation to /results?reps=r.
Mount(r) ==
    /\ ~mounted
    /\ mounts < MaxMounts
    /\ mounted' = TRUE
    /\ mounts' = mounts + 1
    /\ resReps' = r
    /\ hasSaved' = FALSE
    /\ pageStats' = NoStats
    /\ effectDue' = TRUE
    /\ pageSaves' = 0
    /\ lastCall' = [op |-> "mount"]
    /\ UNCHANGED <<statsVars, resultsFrame>>

\* useEffect, lines 20-29, and the commit of its state updates.
RunEffect ==
    LET r == ResultsEffect(resReps, hasSaved, pageStats, storage, today)
    IN  /\ mounted
        /\ effectDue
        /\ r[4] > 0 => saves < MaxSaves
        /\ storage' = r[1]
        /\ pageStats' = r[2]
        /\ hasSaved' = r[3]
        /\ pageSaves' = pageSaves + r[4]
        /\ saves' = saves + r[4]
        /\ effectDue' = (r[3] # hasSaved)
        /\ lastCall' = [op |-> "effect", invoked |-> r[4]]
        /\ UNCHANGED <<today, mounted, mounts, resReps, resultsFrame>>

\* Navigation away, once the effects of the last commit have run.
ResultsUnmount ==
    /\ mounted
    /\ ~effectDue
    /\ mounted' = FALSE
    /\ lastCall' = [op |-> "unmount"]
    /\ UNCHANGED <<statsVars, mounts, resReps, hasSaved, pageStats, effectDue,
                   pageSaves, resultsFrame>>

NextResults ==
    \/ \E r \in ResReps : Mount(r)
    \/ RunEffect
    \/ ResultsUnmount
    \/ DayChange

SpecResults == Init /\ [][NextResults]_vars

----------------------------------------------------------------------------
(* Properties of the counting stage, checked under Spec                    *)

\* C1: after every processed frame engine.reps is not negative, and a frame
\* lowers reps only by the rollback of a confirming frame (GOING_UP -> UP),
\* by one.
C1_RepsNeverNegative ==
    /\ engine.reps >= 0
    /\ (lastOp \in {"calibrate", "tick"} /\ engine.reps < repsBefore)
       => /\ prevPhase = "GOING_UP"
          /\ engine.phase = "UP"
          /\ engine.reps = repsBefore - 1

\* C2: a frame that leaves engine.reps higher than before is a confirming
\* frame (GOING_UP -> UP) of a cycle whose displacement met the requirement:
\* the largest y observed since the cycle left UP, minus the baseline, is at
\* least requiredDropPx.
C2_RepsRiseOnlyWithDepth ==
    (lastOp \in {"calibrate", "tick"} /\ engine.reps > repsBefore)
    => /\ prevPhase = "GOING_UP"
       /\ engine.phase = "UP"
       /\ cycleMaxY # None
       /\ cycleMaxY - EMA_get(depthTracker.baselineY) >= depthTracker.requiredDropPx

\* C3: a completed cycle (UP -> GOING_DOWN -> DOWN -> GOING_UP -> UP) with
\* checkValidity() false on every frame after the one that left UP, the
\* completing frame included, leaves engine.reps no greater than it was when
\* the cycle left UP.
C3_ShallowCycleNoNetIncrement ==
    ( /\ lastOp = "tick"
      /\ prevPhase = "GOING_UP"
      /\ engine.phase = "UP"
      /\ ~cycleEverValid )
    => engine.reps <= cycleStartReps

\* A shallow cycle whose rep the tick counted and the rollback took back.
C3_Witness ==
    /\ lastOp = "tick"
    /\ prevPhase = "GOING_UP"
    /\ engine.phase = "UP"
    /\ ~cycleEverValid
    /\ engine.lastRepTime = now
    /\ engine.reps = cycleStartReps

\* C11: on a confirming frame (GOING_UP -> UP) the counter is decremented
\* iff checkValidity() is false on that frame.
C11_RollbackIffInvalidAtConfirm ==
    (lastOp = "tick" /\ prevPhase = "GOING_UP" /\ engine.phase = "UP")
    => (rolledBack <=> ~confirmDepthOk)

\* C12: right after the mode-change reset the rep engine, the depth tracker,
\* the smoothers and EMAs, the validity latch, the calibrated A_UP, the
\* calibration counters and the last-emitted trackers have their initial
\* values.
C12_ModeChangeReconstructsAll ==
    lastOp = "mode"
    => /\ engine = createRepEngine
       /\ depthTracker = BodyDepthTracker
       /\ calibrationFrames = 0
       /\ maxAngleAccum = 0
       /\ lastRepCount = 0
       /\ primed = {}
       /\ isValidRep = TRUE
       /\ dynamicUp = DYNAMIC_UP_INITIAL
       /\ lastPhase = "UP"

\* C14: after every processed frame and after every mode-change reset the
\* last value delivered through onRepChange equals engine.reps and the last
\* value delivered through onPhaseChange equals engine.phase.
C14_ObserverHoldsCurrent ==
    lastOp \in {"calibrate", "tick", "mode"}
    => (shownReps = engine.reps /\ shownPhase = engine.phase)

----------------------------------------------------------------------------
(* Properties of tickRepEngine, checked under SpecEngine                   *)

\* C4 as stated: from UP with angle >= A_UP, DEBOUNCE_FRAMES or more ticks
\* with angle <= A_DOWN followed by DEBOUNCE_FRAMES or more ticks with angle
\* >= A_UP, with at least MIN_REP_DURATION_MS since the last low tick and at
\* least COOLDOWN_MS since the last counted rep, has raised reps by one.
C4_HoldDebounceFramesCounts ==
    ( /\ mon.stage = "high"
      /\ mon.lows >= DEBOUNCE_FRAMES
      /\ mon.highs >= DEBOUNCE_FRAMES
      /\ now - mon.lowEnd >= MIN_REP_DURATION_MS
      /\ (lastIncTime = None \/ now - lastIncTime >= COOLDOWN_MS) )
    => engine.reps = mon.startReps + 1

\* C4 amended: the tick that leaves UP and the tick that leaves DOWN do not
\* count toward the debounce.  From UP with angle >= A_UP, DEBOUNCE_FRAMES + 1
\* or more ticks with angle <= A_DOWN followed by DEBOUNCE_FRAMES + 1 ticks
\* with angle >= A_UP raise reps by exactly one, on the last of these ticks,
\* when that tick is at least MIN_REP_DURATION_MS after the tick that
\* confirmed DOWN and more than COOLDOWN_MS after lastRepTime.
C4_FullCycleCounts ==
    [][ ( /\ mon.stage = "high"
          /\ mon.lows = MonCap
          /\ mon.highs = DEBOUNCE_FRAMES
          /\ mon'.highs = MonCap
          /\ now' - engine.repStartTime >= MIN_REP_DURATION_MS
          /\ now' - engine.lastRepTime > COOLDOWN_MS )
        => /\ engine.reps = mon.startReps
           /\ engine'.reps = mon.startReps + 1
           /\ engine'.phase = "UP" ]_vars

C4_Witness ==
    /\ mon.stage = "high"
    /\ mon.lows = MonCap
    /\ mon.highs = MonCap
    /\ prevPhase = "GOING_UP"
    /\ engine.phase = "UP"
    /\ engine.reps = mon.startReps + 1
    /\ lastIncTime = now

\* C5: two ticks that raise reps are more than COOLDOWN_MS apart, and a
\* GOING_UP -> UP confirmation within COOLDOWN_MS of the last counted rep
\* leaves reps unchanged.
C5_Cooldown ==
    [][ /\ (engine'.reps > engine.reps /\ lastIncTime # None)
             => now' - lastIncTime > COOLDOWN_MS
        /\ ( /\ engine.phase = "GOING_UP"
             /\ engine'.phase = "UP"
             /\ lastIncTime # None
             /\ now' - lastIncTime <= COOLDOWN_MS )
             => engine'.reps = engine.reps ]_vars

C5_Witness ==
    /\ prevPhase = "GOING_UP"
    /\ engine.phase = "UP"
    /\ streak = DEBOUNCE_FRAMES
    /\ lastIncTime # None
    /\ now - lastIncTime > 0
    /\ now - lastIncTime <= COOLDOWN_MS
    /\ engine.reps = 1

\* C6: a tick with angle >= A_UP while the phase is GOING_DOWN returns the
\* phase to UP with holdFrames 0, and reps is what it was when the descent
\* began.
C6_AbortedDescent ==
    [][ (engine.phase = "GOING_DOWN" /\ elbowAngle' >= thresholds.A_UP)
        => /\ engine'.phase = "UP"
           /\ engine'.holdFrames = 0
           /\ engine'.reps = engine.reps
           /\ engine'.reps = cycleStartReps ]_vars

C6_Witness ==
    /\ prevPhase = "GOING_DOWN"
    /\ engine.phase = "UP"
    /\ elbowAngle >= thresholds.A_UP
    /\ engine.reps = 1

\* C7: the example scenario (angles of Scenario at 0, 100, ..., 1000 ms,
\* A_UP = 155, A_DOWN = 90, fresh engine) ends with reps = 1 in phase UP.
C7_Scenario ==
    scen = Len(Scenario) => (engine.reps = 1 /\ engine.phase = "UP")

C7_Witness ==
    /\ scen = Len(Scenario)
    /\ now = ScenarioTimes[Len(Scenario)]
    /\ thresholds = ScenarioThresholds

\* C8: on a tick that confirms GOING_UP -> UP, reps is raised by one and
\* lastRepTime set to the tick's clock value iff the tick is more than
\* COOLDOWN_MS after lastRepTime and at least MIN_REP_DURATION_MS after
\* repStartTime; otherwise reps and lastRepTime are unchanged.
C8_ConfirmationGate ==
    [][ (engine.phase = "GOING_UP" /\ engine'.phase = "UP")
        => IF /\ now' - engine.lastRepTime > COOLDOWN_MS
              /\ now' - engine.repStartTime >= MIN_REP_DURATION_MS
           THEN /\ engine'.reps = engine.reps + 1
                /\ engine'.lastRepTime = now'
           ELSE /\ engine'.reps = engine.reps
                /\ engine'.lastRepTime = engine.lastRepTime ]_vars

\* A counted rep followed by a confirmation the gate suppressed.
C8_Witness ==
    /\ prevPhase = "GOING_UP"
    /\ engine.phase = "UP"
    /\ engine.reps = 1
    /\ engine.lastRepTime < now
    /\ now - engine.lastRepTime > COOLDOWN_MS
    /\ now - engine.repStartTime < MIN_REP_DURATION_MS

\* C9: GOING_DOWN -> DOWN and GOING_UP -> UP happen only on the
\* DEBOUNCE_FRAMES-th consecutive tick in the candidate phase with the
\* candidate condition true; holdFrames is that count, and a tick with the
\* angle strictly between the thresholds puts it back to zero.
C9_Debounce ==
    [][ /\ ( \/ engine.phase = "GOING_DOWN" /\ engine'.phase = "DOWN"
             \/ engine.phase = "GOING_UP" /\ engine'.phase = "UP" )
           => streak' = DEBOUNCE_FRAMES
        /\ engine'.phase \in {"GOING_DOWN", "GOING_UP"}
           => engine'.holdFrames = streak'
        /\ ( /\ engine.phase \in {"GOING_DOWN", "GOING_UP"}
             /\ elbowAngle' > thresholds.A_DOWN
             /\ elbowAngle' < thresholds.A_UP )
           => (engine'.phase = engine.phase /\ engine'.holdFrames = 0) ]_vars

\* DOWN confirmed again after a first counted rep.
C9_Witness ==
    /\ prevPhase = "GOING_DOWN"
    /\ engine.phase = "DOWN"
    /\ streak = DEBOUNCE_FRAMES
    /\ engine.repStartTime = now
    /\ engine.reps = 1

AllowedEdges ==
    { <<"UP", "GOING_DOWN">>, <<"GOING_DOWN", "UP">>, <<"GOING_DOWN", "DOWN">>,
      <<"DOWN", "GOING_UP">>, <<"GOING_UP", "DOWN">>, <<"GOING_UP", "UP">> }

\* C10: the engine starts in UP; a tick changes the phase only along the six
\* edges of the transition table, and changes reps only on GOING_UP -> UP.
C10_TransitionTable ==
    /\ engine.phase = "UP"
    /\ [][ /\ engine'.phase # engine.phase
              => <<engine.phase, engine'.phase>> \in AllowedEdges
           /\ engine'.reps # engine.reps
              => (engine.phase = "GOING_UP" /\ engine'.phase = "UP") ]_vars

C10_Witness ==
    /\ prevPhase = "GOING_UP"
    /\ engine.phase = "DOWN"
    /\ engine.reps = 1

\* C26: tickRepEngine never lowers reps: one tick changes reps by 0 or by
\* +1, and reps is never negative after any sequence of ticks from
\* createRepEngine().
C26_TickNeverLowersReps ==
    /\ [](engine.reps >= 0)
    /\ [][ engine'.reps = engine.reps \/ engine'.reps = engine.reps + 1 ]_vars

\* The tick that counted a second repetition.
C26_Witness ==
    /\ engine.reps = 2
    /\ lastIncTime = now
    /\ engine.lastRepTime = now

----------------------------------------------------------------------------
(* Properties of tickRepEngine on malformed input, checked under           *)
(* SpecMalformed                                                           *)

\* C20: a tick whose angle is NaN or outside [0, 180] leaves the engine
\* record (phase, reps, holdFrames, lastRepTime, repStartTime) unchanged.
C20_MalformedTickIsNoOp ==
    [][ Malformed(elbowAngle') => engine' = engine ]_vars

----------------------------------------------------------------------------
(* Properties of the session controls, checked under SpecSession           *)

\* C13: while a session is recording or finished, the rep count shown to
\* the user, and the count handed to the results page, include no rep the
\* engine counted before startSession.
C13_SessionCountsOwnReps ==
    /\ status = "Recording" => pageReps <= engine.reps - baseReps
    /\ status = "Finished" => handedReps <= engine.reps - baseReps

----------------------------------------------------------------------------
(* Properties of the animation-frame loop, checked under SpecLoop          *)

DetectOps ==
    {"notReady", "noContext", "stale", "throw", "noLandmarks", "invisible",
     "calibrate", "tick"}

\* C15: a frame with no landmarks, or whose lowest required visibility is not
\* above the threshold of the mode (VIS_SIDE, VIS_FRONT), leaves the engine,
\* the depth tracker, the smoothers and EMAs, the calibration counters and
\* the validity latch unchanged, delivers nothing through the callbacks, and
\* requests the next frame.
C15_VisibilityGate ==
    [][ ( /\ lastOp' \in {"noLandmarks", "invisible", "calibrate", "tick"}
          /\ frameVis' <= (IF mode = "side" THEN VIS_SIDE ELSE VIS_FRONT) )
        => (UNCHANGED coreState /\ rafCurrent') ]_vars

\* A front-mode frame at exactly VIS_FRONT, skipped after frames were
\* processed.
C15_Witness ==
    /\ lastOp = "invisible"
    /\ mode = "front"
    /\ frameVis = VIS_FRONT
    /\ calibrationFrames > 0
    /\ rafCurrent

C17_DetectionFailureSkipsFrame ==
    [][ lastOp' = "throw" => (UNCHANGED coreState /\ rafCurrent') ]_vars

\* A failing frame in the middle of a repetition.
C17_Witness ==
    /\ lastOp = "throw"
    /\ engine.phase = "DOWN"
    /\ calibrationFrames = CALIBRATION_FRAMES
    /\ rafCurrent

\* C18: while the loop is stopped (isRunning false, or the effect cleaned up
\* by the unmount) no detect callback is pending and none runs.
C18_NoDetectAfterStop ==
    /\ []((~isRunning \/ ~effActive) => (~rafCurrent /\ rafOrphans = 0))
    /\ [][ lastOp' \in DetectOps => (isRunning /\ effActive /\ landmarker) ]_vars

\* The loop ran, was stopped, and the start timer of the new effect instance
\* fired afterwards.
C18_Witness ==
    /\ lastOp = "timer"
    /\ ~isRunning
    /\ lastTime > 0
    /\ calibrationFrames > 0
    /\ ~rafCurrent

\* C19: every invocation of detect, on every exit path, requests the next
\* animation frame.
C19_EveryExitReschedules ==
    [][ lastOp' \in DetectOps => rafCurrent' ]_vars

----------------------------------------------------------------------------
(* Properties of the depth bookkeeping of detect, checked under Spec       *)

\* C23: the per-rep maximum is cleared whenever a new candidate rep begins:
\* while the phase is away from UP, maxDownY is the largest y of the frames
\* seen since the phase left UP (none yet on the frame that leaves UP), also
\* when the previous candidate was an aborted descent.
C23_MaxClearedOnDeparture ==
    (lastOp = "tick" /\ engine.phase # "UP") => depthTracker.maxDownY = cycleMaxY

\* C28: every processed visible frame, calibration frames included, calls
\* exactly one of updateBaseline and trackDepth, chosen by the phase before
\* the frame's tick: updateBaseline in UP (the maximum is left alone),
\* trackDepth otherwise (the baseline is left alone, and the maximum is the
\* tracked one, or cleared by the resetRep of a confirming frame).
C28_BaselineOrDepth ==
    [][ lastOp' \in {"calibrate", "tick"} =>
          IF engine.phase = "UP"
          THEN /\ depthTracker'.maxDownY = depthTracker.maxDownY
               /\ \E y \in Ys : depthTracker'.baselineY =
                                    updateBaseline(depthTracker, y).baselineY
          ELSE /\ depthTracker'.baselineY = depthTracker.baselineY
               /\ \/ \E y \in Ys : depthTracker'.maxDownY =
                                       trackDepth(depthTracker, y).maxDownY
                  \/ /\ engine.phase = "GOING_UP"
                     /\ engine'.phase = "UP"
                     /\ depthTracker'.maxDownY = -1 ]_vars

\* A frame in mid-descent raised the maximum above a baseline that stayed
\* where the UP frames left it.
C28_Witness ==
    /\ lastOp = "tick"
    /\ prevPhase = "GOING_DOWN"
    /\ engine.phase = "GOING_DOWN"
    /\ depthTracker.baselineY = <<60>>
    /\ depthTracker.maxDownY = 78

----------------------------------------------------------------------------
(* Properties of the threshold configuration, checked under SpecConfig     *)

\* C21: a threshold pair with A_DOWN >= A_UP is rejected when the engine is
\* set up, so no tick is ever processed with such a pair.
C21_InvalidThresholdsRejected ==
    thresholds.A_DOWN >= thresholds.A_UP => elbowAngle = None

----------------------------------------------------------------------------
(* Properties of BodyDepthTracker, checked under SpecTracker               *)

MaxOf(S) == CHOOSE x \in S : \A z \in S : z <= x

\* C22: after any sequence of calls, checkValidity() is true exactly when a
\* baseline sample exists, a depth sample has been tracked since the last
\* resetRep, and maxDownY - baselineY >= requiredDropPx; a baseline of 0 and
\* a tracked y of -1 are samples like any other.
C22_CheckValidityIff ==
    checkValidity(depthTracker) <=>
        /\ baselineFed
        /\ trackedYs # {}
        /\ MaxOf(trackedYs) - EMA_get(depthTracker.baselineY)
              >= depthTracker.requiredDropPx

\* C27: after any sequence of trackDepth calls since the last resetRep (or
\* the construction), maxDownY is the largest y passed in them, whatever
\* their sign.
C27_MaxDownYIsMaximum ==
    trackedYs # {} => depthTracker.maxDownY = MaxOf(trackedYs)

\* C29: setRequiredDrop(w, mode) leaves requiredDropPx = max(w * factor,
\* minPx) with (factor, minPx) = (0.10, 18) in front mode and (0.06, 12) in
\* side mode; so it is never below 18 px (front) or 12 px (side).
C29_RequiredDrop ==
    [][ lastCall'.op = "setRequiredDrop" =>
          LET w == lastCall'.w
              r == depthTracker'.requiredDropPx
          IN  IF lastCall'.m = "front"
              THEN r * 100 = Max(w * 10, 18 * 100) /\ r >= 18
              ELSE r * 100 = Max(w * 6, 12 * 100) /\ r >= 12 ]_vars

\* Width 0 in front mode gives the 18 px floor, and a wide subject in side
\* mode gives the scaled value.
C29_Witness ==
    /\ lastCall.op = "setRequiredDrop"
    /\ \/ lastCall.w = 0 /\ lastCall.m = "front" /\ depthTracker.requiredDropPx = 18
       \/ lastCall.w = 300 /\ lastCall.m = "side" /\ depthTracker.requiredDropPx = 18

----------------------------------------------------------------------------
(* Properties of EMA, checked under SpecEMA                                *)

----------------------------------------------------------------------------
(* Properties of calculateAngle, checked under SpecAngle                   *)

\* p = <<A, B, C>>: the cross and dot products of A - B and C - B.
Cross(p) ==
    (p[1][1] - p[2][1]) * (p[3][2] - p[2][2])
    - (p[1][2] - p[2][2]) * (p[3][1] - p[2][1])

Dot(p) ==
    (p[1][1] - p[2][1]) * (p[3][1] - p[2][1])
    + (p[1][2] - p[2][2]) * (p[3][2] - p[2][2])

----------------------------------------------------------------------------
(* Properties of the front-mode angle, checked under SpecFront             *)

\* C30: in front mode, when the smoothed elbow angles differ by more than 30
\* degrees the angle fed to the engine is the smaller one and the symmetry
\* flag is false, otherwise it is their mean and the flag is true; so in the
\* asymmetric case the fed angle reaches a threshold A_UP only if both arms
\* do.
C30_FrontAngle ==
    arms # <<>> =>
        LET LA == arms[1]
            RA == arms[2]
        IN  IF LA - RA > 30 \/ RA - LA > 30
            THEN /\ fed[1] = (IF LA <= RA THEN LA ELSE RA)
                 /\ fed[2] = FALSE
                 /\ \A up \in DYNAMIC_UP_LO..DYNAMIC_UP_HI :
                        fed[1] >= up => (LA >= up /\ RA >= up)
            ELSE /\ 2 * fed[1] = LA + RA
                 /\ fed[2] = TRUE

\* One arm locked out at 180 and the other bent at 90: the engine is fed 90.
C30_Witness ==
    /\ arms = <<180, 90>>
    /\ fed = <<90, FALSE>>

----------------------------------------------------------------------------
(* Properties of the calibration window, checked under Spec                *)

\* C31: calibration is a pre-phase.  While fewer than 60 visible frames have
\* been processed since the construction or the last mode change, a frame
\* leaves the engine alone and delivers nothing to the observers; a frame
\* that ticks the engine comes after the window, with an A_UP that lies in
\* [140, 160], is greater than A_DOWN = 95, and stays what it is until the
\* next mode change.
C31_CalibrationPrePhase ==
    [][ /\ (calibrationFrames < CALIBRATION_FRAMES /\ mode' = mode) =>
              /\ lastOp' = "calibrate"
              /\ engine' = engine
              /\ shownReps' = shownReps
              /\ shownPhase' = shownPhase
        /\ (lastOp' = "tick") =>
              /\ calibrationFrames >= CALIBRATION_FRAMES
              /\ dynamicUp >= DYNAMIC_UP_LO
              /\ dynamicUp <= DYNAMIC_UP_HI
              /\ dynamicUp > A_DOWN_FIXED
        /\ (calibrationFrames >= CALIBRATION_FRAMES /\ mode' = mode) =>
              dynamicUp' = dynamicUp ]_vars

\* After a mode change and a second calibration window of low angles, a
\* frame has ticked the engine with the A_UP at the floor of the clamp.
C31_Witness ==
    /\ lastOp = "tick"
    /\ modeChanges = 1
    /\ calibrationFrames = CALIBRATION_FRAMES
    /\ dynamicUp = DYNAMIC_UP_LO
    /\ engine.phase = "GOING_DOWN"

----------------------------------------------------------------------------
(* Properties of the rollback and of the validity latch, checked under     *)
(* Spec                                                                    *)

\* C32: over a frame that confirms GOING_UP -> UP, tick and rollback taken
\* together change engine.reps by 0 or by +1: the decrement only undoes an
\* increment of the same tick.
C32_ConfirmNetChange ==
    (lastOp = "tick" /\ prevPhase = "GOING_UP" /\ engine.phase = "UP")
    => (engine.reps = repsBefore \/ engine.reps = repsBefore + 1)

\* C33: the validity latch is false only inside an open cycle: whenever the
\* engine phase is UP or GOING_DOWN, isValidRepRef is true, right after a
\* mode-change reset included.
C33_LatchFalseOnlyInCycle ==
    engine.phase \in {"UP", "GOING_DOWN"} => isValidRep

----------------------------------------------------------------------------
(* Properties of the engine's bookkeeping fields                           *)

\* C34: after every tick of an engine made by createRepEngine, holdFrames
\* is between 0 and DEBOUNCE_FRAMES - 1, and it is 0 whenever the phase is
\* UP or DOWN.
C34_HoldFramesRange ==
    /\ engine.holdFrames >= 0
    /\ engine.holdFrames <= DEBOUNCE_FRAMES - 1
    /\ engine.phase \in {"UP", "DOWN"} => engine.holdFrames = 0

\* Two consecutive high ticks in GOING_UP, one short of the confirmation,
\* in a cycle whose DOWN was confirmed.
C34_Witness ==
    /\ engine.phase = "GOING_UP"
    /\ prevPhase = "GOING_UP"
    /\ engine.holdFrames = DEBOUNCE_FRAMES - 1
    /\ engine.repStartTime > 0

----------------------------------------------------------------------------
(* Properties of runs of extreme angles, checked under SpecRun             *)

\* C35: the machine cannot get stuck.  With A_DOWN + 5 < A_UP - 5, from
\* every reachable engine state, after DEBOUNCE_FRAMES + 1 = 4 consecutive
\* ticks with angle >= A_UP the phase is UP, and after 4 consecutive ticks
\* with angle <= A_DOWN the phase is DOWN.
C35_NeverStuck ==
    (thresholds.A_DOWN + HYSTERESIS < thresholds.A_UP - HYSTERESIS)
    => /\ highRun >= DEBOUNCE_FRAMES + 1 => engine.phase = "UP"
       /\ lowRun >= DEBOUNCE_FRAMES + 1 => engine.phase = "DOWN"

\* Four high ticks took the engine from DOWN to UP under the narrowest
\* band, with the last of them confirming.
C35_Witness ==
    /\ thresholds = [A_UP |-> 106, A_DOWN |-> 95]
    /\ highRun = DEBOUNCE_FRAMES + 1
    /\ prevPhase = "GOING_UP"
    /\ engine.phase = "UP"
    /\ mon.stage = "high"
    /\ mon.highs = DEBOUNCE_FRAMES + 1

----------------------------------------------------------------------------
(* Properties of the engine's time stamps, checked under SpecEngine        *)

\* C36: a tick changes lastRepTime only when it increments reps, to the
\* clock value of that tick, so lastRepTime is 0 or the time of the most
\* recent counted rep; a tick changes repStartTime only when it confirms
\* GOING_DOWN -> DOWN, to the clock value of that tick.
C36_StampsChangeOnlyAtTheirEvents ==
    /\ [](engine.lastRepTime = (IF lastIncTime = None THEN 0 ELSE lastIncTime))
    /\ [][ /\ engine'.lastRepTime # engine.lastRepTime
              => /\ engine'.reps = engine.reps + 1
                 /\ engine'.lastRepTime = now'
           /\ engine'.repStartTime # engine.repStartTime
              => /\ engine.phase = "GOING_DOWN"
                 /\ engine'.phase = "DOWN"
                 /\ engine'.repStartTime = now' ]_vars

\* A cycle confirmed inside the cooldown of a counted rep: the confirmation
\* left lastRepTime at the time of that rep.
C36_Witness ==
    /\ prevPhase = "GOING_UP"
    /\ engine.phase = "UP"
    /\ engine.reps = 1
    /\ lastIncTime # None
    /\ lastIncTime < now
    /\ engine.lastRepTime = lastIncTime
    /\ engine.repStartTime > lastIncTime

----------------------------------------------------------------------------
(* Properties of the stored workout stats, checked under SpecStats         *)

\* C37: starting from empty storage, after any sequence of saves and day
\* changes the stats (as stored, and as getWorkoutStats returns them)
\* satisfy allTimeBest >= todayBest and todayTotal >= todayBest, and
\* totalSessions is the number of saves made with reps > 0; across a day
\* change todayBest and todayTotal become 0 while allTimeBest and
\* totalSessions stay.
C37_StatsInvariants ==
    /\ [] LET now_ == getWorkoutStats(storage, today)
              kept == IF storage = NoItem THEN getInitialStats(today)
                      ELSE Parse(storage)
          IN  /\ now_.allTimeBest >= now_.todayBest
              /\ now_.todayTotal >= now_.todayBest
              /\ now_.totalSessions = saves
              /\ kept.allTimeBest >= kept.todayBest
              /\ kept.todayTotal >= kept.todayBest
              /\ kept.totalSessions = saves
    /\ [][ today' # today =>
             LET before == getWorkoutStats(storage, today)
                 after  == getWorkoutStats(storage', today')
             IN  /\ after.todayBest = 0
                 /\ after.todayTotal = 0
                 /\ after.allTimeBest = before.allTimeBest
                 /\ after.totalSessions = before.totalSessions ]_vars

\* Midnight has just passed after a day with two sessions of different
\* sizes: the stored item still holds that day's figures.
C37_Witness ==
    /\ lastCall = [op |-> "day"]
    /\ today = 1
    /\ storage = <<3, 3, 4, 2, 0>>
    /\ saves = 2

\* C38: saveWorkoutSession(reps) with reps <= 0 leaves the stored item as it
\* is and returns the current stats; getWorkoutStats never writes; with
\* reps > 0 a save stores (and returns) stats with todayTotal raised by
\* exactly reps and totalSessions by exactly 1 over the current stats.
C38_SaveAndGetEffects ==
    [][ LET current == getWorkoutStats(storage, today)
        IN  /\ (lastCall'.op = "save" /\ lastCall'.reps <= 0)
                  => /\ storage' = storage
                     /\ lastCall'.ret = current
            /\ lastCall'.op = "get"
                  => /\ storage' = storage
                     /\ lastCall'.ret = current
            /\ (lastCall'.op = "save" /\ lastCall'.reps > 0)
                  => /\ storage' # NoItem
                     /\ Parse(storage').todayTotal = current.todayTotal + lastCall'.reps
                     /\ Parse(storage').totalSessions = current.totalSessions + 1
                     /\ lastCall'.ret = Parse(storage') ]_vars

\* A save of zero reps on the day after a session: the stored item still
\* holds yesterday's figures and the call returned today's, zeroed.
C38_Witness ==
    /\ lastCall = [op |-> "save", reps |-> 0,
                   ret |-> [allTimeBest |-> 3, todayBest |-> 0, todayTotal |-> 0,
                            totalSessions |-> 1, lastWorkoutDate |-> 1]]
    /\ storage = <<3, 3, 3, 1, 0>>
    /\ today = 1

----------------------------------------------------------------------------
(* Properties of the results page, checked under SpecResults               *)

\* C39: during one mount of the results page saveWorkoutSession is invoked
\* at most once; with reps > 0 it has been invoked exactly once when the
\* effect has nothing left to run, whatever the number of its runs; with
\* reps <= 0 it is not invoked, and the effect only reads the stats.
C39_SavedOncePerMount ==
    /\ [] /\ pageSaves <= 1
          /\ (mounted /\ ~effectDue /\ Gt(resReps, 0))
                => (pageSaves = 1 /\ hasSaved /\ pageStats # NoStats)
          /\ Le(resReps, 0) => pageSaves = 0
    /\ [][ (lastCall'.op = "effect" /\ Le(resReps, 0))
             => /\ storage' = storage
                /\ pageStats' = getWorkoutStats(storage, today) ]_vars

\* The second mount of the page, with 5 reps after a session of 2: the
\* effect ran, saved, ran again after the commit of hasSaved and left the
\* stored item alone.
C39_Witness ==
    /\ mounted
    /\ mounts = 2
    /\ resReps = 5
    /\ ~effectDue
    /\ lastCall = [op |-> "effect", invoked |-> 0]
    /\ pageSaves = 1
    /\ storage = <<5, 5, 7, 2, 0>>

====
